---- MODULE Spec2Model ----
(***************************************************************************)
(* Model of bee_solver.py (NYT Spelling Bee solver).                       *)
(*                                                                         *)
(* Strings are sequences of characters.  A character is an integer:        *)
(*   i  in 1..26   the lowercase letter number i  (a = 1, ..., z = 26)     *)
(*   -i            the uppercase letter number i                           *)
(*   0             a character that is not alphabetic (a digit)            *)
(* so that str.lower, str.upper, str.casefold and str.isalpha are          *)
(* computed, not assumed.                                                  *)
(***************************************************************************)
EXTENDS Integers, Sequences, FiniteSets, TLC

VARIABLES
    pc,           \* position of the program
    arg_c,        \* raw value of -c/--center on the command line, or None
    arg_l,        \* raw values of -l/--letters on the command line, or None
    c_first,      \* TRUE when -c precedes -l on the command line
    center,       \* main's center (None until known)
    letters,      \* main's letters: the outer letters given by flags, or None
    acceptable,   \* the list get_letters accumulates and main passes to solver
    entries,      \* number of entries get_letters has accepted
    prompted,     \* TRUE once a prompt has been answered (or cancelled)
    invalid,      \* TRUE while a prompt shows its invalid_message
    word_list,    \* the list get_words returned / solver's first argument
    words,        \* first component of solver's result
    num_pan,      \* second component of solver's result
    printed,      \* the lines the program has printed
    exit_status   \* process exit status once the program has ended, else None

vars == << pc, arg_c, arg_l, c_first, center, letters, acceptable, entries,
           prompted, invalid, word_list, words, num_pan, printed, exit_status >>

\* Optional values (Python's None): the empty sequence is None, <<x>> is x
None == << >>
Some(x) == <<x>>
IsNone(o) == o = << >>

----------------------------------------------------------------------------
(* Bounds of the model *)

\* longest word drawn for a solver input
MaxWordLen == 2
\* longest word list drawn for a solver input
MaxWords == 2
\* longest list of words handed to print_results
MaxPrinted == 3
\* largest pangram count handed to print_results
MaxPan == 2
\* number of unused lowercase letters a user may choose from at a prompt
NumFresh == 2

----------------------------------------------------------------------------
(* Characters and strings *)

\* len(string.ascii_lowercase)
NumAlphabet == 26

\* ALPHABET = set(string.ascii_lowercase): a set of one-character strings
ALPHABET == { <<i>> : i \in 1..NumAlphabet }

\* str.lower()
lower(s) == [ i \in 1..Len(s) |-> IF s[i] < 0 THEN -s[i] ELSE s[i] ]

\* str.upper()
upper(s) == [ i \in 1..Len(s) |-> IF s[i] > 0 THEN -s[i] ELSE s[i] ]

\* str.casefold(): on these characters the same mapping as lower()
casefold(s) == [ i \in 1..Len(s) |-> IF s[i] < 0 THEN -s[i] ELSE s[i] ]

\* str.isalpha(): non-empty and every character a letter
isalpha(s) == Len(s) > 0 /\ \A i \in 1..Len(s) : s[i] # 0

\* `x in s` for strings x and s: x occurs as a substring of s
InStr(x, s) ==
    \E k \in 0..(Len(s) - Len(x)) : \A j \in 1..Len(x) : s[k + j] = x[j]

\* `x in l` for a list l
InList(x, l) == \E i \in 1..Len(l) : l[i] = x

\* set(l) for a list l
SetOf(l) == { l[i] : i \in 1..Len(l) }

\* the characters of a string, as Python's iteration yields them
CharsOf(s) == { <<s[i]>> : i \in 1..Len(s) }

\* s < t for strings: Python's lexicographic comparison by code point
StrLess(s, t) ==
    \E k \in 1..(Len(t)) :
        /\ k <= Len(s) + 1
        /\ \A j \in 1..(k - 1) : s[j] = t[j]
        /\ \/ k = Len(s) + 1
           \/ (k <= Len(s) /\ s[k] < t[k])

----------------------------------------------------------------------------
(* validate_char, check_duplicate, check_letter *)

validate_char(char) == isalpha(char) /\ Len(char) = 1

check_duplicate(char, ls) == validate_char(char) /\ ~InList(char, ls)

----------------------------------------------------------------------------
(* solver *)

some_in_word(word, acc) == \E i \in 1..Len(acc) : InStr(acc[i], word)

\* the pangram test of line 165: all(el in word for el in acceptable)
is_pangram(word, acc) == \A i \in 1..Len(acc) : InStr(acc[i], word)

\* the filter of line 164
passes_center_only(word, acc, c) == InStr(c, word)

passes(word, acc, c) ==
    /\ InStr(c, word)
    /\ ~\E el \in CharsOf(word) : el \in (ALPHABET \ SetOf(acc))

\* the element added to `words` for a word that passes (lines 165-169)
added_never_upper(word, acc) == word

added(word, acc) == IF is_pangram(word, acc) THEN upper(word) ELSE word

\* the loop of lines 163-169 over word_list[i..], from the accumulated state
RECURSIVE solver_loop(_, _, _, _, _, _)
solver_loop(wl, acc, c, i, ws, np) ==
    IF i > Len(wl) THEN [words |-> ws, num_pan |-> np]
    ELSE IF passes(wl[i], acc, c)
         THEN solver_loop(wl, acc, c, i + 1, ws \cup {added(wl[i], acc)},
                          IF is_pangram(wl[i], acc) THEN np + 1 ELSE np)
         ELSE solver_loop(wl, acc, c, i + 1, ws, np)

\* sorted(words, key=str.casefold)
RECURSIVE sorted_casefold(_)
sorted_casefold(ws) ==
    IF ws = {} THEN << >>
    ELSE LET m == CHOOSE w \in ws :
                    \A v \in ws : ~StrLess(casefold(v), casefold(w))
         IN  <<m>> \o sorted_casefold(ws \ {m})

unsorted(ws) ==
    IF ws = {} THEN << >>
    ELSE LET m == CHOOSE w \in ws :
                    \A v \in ws : ~StrLess(casefold(w), casefold(v))
         IN  <<m>> \o sorted_casefold(ws \ {m})

sorted_words(ws) == sorted_casefold(ws)

solver(wl, acc, c) ==
    LET r == solver_loop(wl, acc, c, 1, {}, 0)
    IN  [words |-> sorted_words(r.words), num_pan |-> r.num_pan]

----------------------------------------------------------------------------
(* print_results *)

\* a printed line: a text followed by a word (empty when the line has none)
Line(text, word) == [text |-> text, word |-> word]

\* lines 187-191
pan_str(np) ==
    IF np > 0
    THEN ", including " \o ToString(np) \o " pangram"
         \o (IF np # 1 THEN "s" ELSE "") \o ","
    ELSE ""

header_verb_by_pangrams(nw, np) ==
    ToString(nw) \o " word" \o (IF nw # 1 THEN "s" ELSE "") \o pan_str(np)
    \o " " \o (IF np # 1 THEN "were" ELSE "was") \o " found:"

\* line 194, with verb and ess of lines 192-193
header(nw, np) ==
    ToString(nw) \o " word" \o (IF nw # 1 THEN "s" ELSE "") \o pan_str(np)
    \o " " \o (IF nw # 1 THEN "were" ELSE "was") \o " found:"

\* the lines print_results prints
print_results(ws, np) ==
    IF Len(ws) = 0 THEN << Line("No words were found.", << >>) >>
    ELSE << Line(header(Len(ws), np), << >>) >>
         \o [ i \in 1..Len(ws) |-> Line("\t", ws[i]) ]

----------------------------------------------------------------------------
(* The command line: check_letter, ValidatedLetters, validate_contain,     *)
(* get_args                                                                *)

\* exit status of ArgumentParser.error, which reports the ArgumentTypeError
\* check_letter raises and a -l without values
ArgparseErrorStatus == 2
\* sys.exit(1) of ValidatedLetters, validate_contain, get_words, __main__
ExitError == 1
\* upper limit of `1 <= input_len <= 6`
MaxOuter == 6
\* `while len(letters) < 7`
TotalLetters == 7

\* check_letter's result for a value it accepts
check_letter(value) == lower(value)

\* argparse's conversion of the values of one option through type=check_letter:
\* 0 when every value converts, else the exit status of the parser's error
TypeStatus(values) ==
    IF Len(values) = 0 \/ \E i \in 1..Len(values) : ~validate_char(values[i])
    THEN ArgparseErrorStatus ELSE 0

Converted(values) == [ i \in 1..Len(values) |-> check_letter(values[i]) ]

ValidatedLettersStatus_no_dup_check(values) ==
    IF ~(1 <= Len(values) /\ Len(values) <= MaxOuter) THEN ExitError ELSE 0

\* ValidatedLetters.__call__ on the converted values: 0 when it stores them,
\* else the exit status
ValidatedLettersStatus(values) ==
    IF ~(1 <= Len(values) /\ Len(values) <= MaxOuter) THEN ExitError
    ELSE IF Cardinality(SetOf(values)) # Len(values) THEN ExitError
    ELSE 0

\* the messages printed with each exit
MsgType(opt) == "error: argument " \o opt \o ": input must only contain single letters"
MsgNoValue == "error: argument -l/--letters: expected at least one argument"
MsgCount == "Error: argument -l/--letters: Outer letters can have between one and six entries."
MsgDup == "Error: argument -l/--letters: Outer letters cannot contain duplicates"
MsgContain == "Error: Center letter cannot be contained in outer letters."
MsgNoFile == "Error: File nyt.txt not found."
MsgCancel == "Operation canceled by user."

\* parsing of -c VALUE: [status, msg]
ParseC ==
    IF IsNone(arg_c) \/ validate_char(arg_c[1]) THEN [status |-> 0, msg |-> ""]
    ELSE [status |-> ArgparseErrorStatus, msg |-> MsgType("-c/--center")]

\* parsing of -l VALUE...: [status, msg]
ParseL ==
    IF IsNone(arg_l) THEN [status |-> 0, msg |-> ""]
    ELSE IF Len(arg_l[1]) = 0
         THEN [status |-> ArgparseErrorStatus, msg |-> MsgNoValue]
    ELSE IF TypeStatus(arg_l[1]) # 0
         THEN [status |-> TypeStatus(arg_l[1]), msg |-> MsgType("-l/--letters")]
    ELSE LET v == Converted(arg_l[1])
         IN  [status |-> ValidatedLettersStatus(v),
              msg |-> IF ~(1 <= Len(v) /\ Len(v) <= MaxOuter) THEN MsgCount
                      ELSE IF Cardinality(SetOf(v)) # Len(v) THEN MsgDup
                      ELSE ""]

\* parser.parse_args(): the options are handled in command-line order and the
\* first failure ends the program
ParseArgs ==
    LET first  == IF c_first THEN ParseC ELSE ParseL
        second == IF c_first THEN ParseL ELSE ParseC
    IN  IF first.status # 0 THEN first ELSE second

ArgsCenter == IF IsNone(arg_c) THEN None ELSE Some(check_letter(arg_c[1]))
ArgsLetters == IF IsNone(arg_l) THEN None ELSE Some(Converted(arg_l[1]))

validate_contain_fails_never(c, ls) == FALSE

\* validate_contain: TRUE when it exits
validate_contain_fails(c, ls) ==
    /\ ~IsNone(c) /\ ~IsNone(ls)
    /\ InList(c[1], ls[1])

Exit(status, msg) ==
    /\ pc' = "exit"
    /\ exit_status' = Some(status)
    /\ printed' = Append(printed, Line(msg, << >>))

\* get_args (lines 269-299), and main's choice of the next step (lines 308-311)
GetArgs ==
    /\ pc = "get_args"
    /\ IF ParseArgs.status # 0
       THEN /\ Exit(ParseArgs.status, ParseArgs.msg)
            /\ UNCHANGED << center, letters >>
       ELSE IF validate_contain_fails(ArgsCenter, ArgsLetters)
       THEN /\ Exit(ExitError, MsgContain)
            /\ UNCHANGED << center, letters >>
       ELSE /\ center' = ArgsCenter
            /\ letters' = ArgsLetters
            /\ pc' = IF IsNone(ArgsCenter) THEN "get_center" ELSE "get_letters"
            /\ UNCHANGED << printed, exit_status >>
    /\ UNCHANGED << arg_c, arg_l, c_first, acceptable, entries, prompted,
                    invalid, word_list, words, num_pan >>

----------------------------------------------------------------------------
(* The prompts: get_center and get_letters *)

\* tokens a user or a command line may supply whatever was accepted before:
\* the letter a, the uppercase letter A, the empty string, a digit, two letters
FixedTokens == { <<1>>, <<-1>>, << >>, <<0>>, <<1, 2>> }

\* the NumFresh first lowercase letters that are not in the list ls
Fresh(ls) ==
    { <<i>> : i \in { k \in 1..NumAlphabet :
                        /\ ~InList(<<k>>, ls)
                        /\ Cardinality({ j \in 1..(k - 1) : ~InList(<<j>>, ls) })
                             < NumFresh } }

\* what a user may type at a prompt, ls being the letters accepted so far
UserTokens(ls) == FixedTokens \cup Fresh(ls)

\* the `validate` of get_center's prompt (lines 74-78), on the raw input
get_center_validate(result) ==
    IF IsNone(letters) THEN validate_char(result)
    ELSE check_duplicate(result, letters[1])

\* get_center: the user's entry is accepted (lines 96-97)
GetCenterAccept ==
    /\ pc = "get_center"
    /\ \E result \in UserTokens(IF IsNone(letters) THEN << >> ELSE letters[1]) :
        /\ get_center_validate(result)
        /\ center' = Some(lower(result))
    /\ pc' = "get_letters"
    /\ prompted' = TRUE
    /\ invalid' = FALSE
    /\ UNCHANGED << arg_c, arg_l, c_first, letters, acceptable, entries,
                    word_list, words, num_pan, printed, exit_status >>

\* get_center: the entry fails `validate`; the prompt shows invalid_message
\* and stays
GetCenterReject ==
    /\ pc = "get_center"
    /\ \E result \in UserTokens(IF IsNone(letters) THEN << >> ELSE letters[1]) :
        ~get_center_validate(result)
    /\ prompted' = TRUE
    /\ invalid' = TRUE
    /\ UNCHANGED << pc, arg_c, arg_l, c_first, center, letters, acceptable,
                    entries, word_list, words, num_pan, printed, exit_status >>

\* line 110
get_letters_init(c, old) ==
    IF IsNone(old) THEN <<c>> ELSE <<c>> \o old[1]

\* main calls get_letters (line 311); get_letters builds its list (line 110)
GetLettersStart ==
    /\ pc = "get_letters"
    /\ acceptable' = get_letters_init(center[1], letters)
    /\ entries' = 0
    /\ pc' = "get_letters_loop"
    /\ UNCHANGED << arg_c, arg_l, c_first, center, letters, prompted, invalid,
                    word_list, words, num_pan, printed, exit_status >>

loop_continues_one_more(ls) == Len(ls) < TotalLetters + 1

\* the loop condition of line 111
loop_continues(ls) == Len(ls) < TotalLetters

\* get_letters: the user's entry is accepted and appended (lines 120, 127-128)
LetterAccept ==
    /\ pc = "get_letters_loop"
    /\ loop_continues(acceptable)
    /\ \E result \in UserTokens(acceptable) :
        /\ check_duplicate(result, acceptable)
        /\ acceptable' = Append(acceptable, lower(result))
    /\ entries' = entries + 1
    /\ prompted' = TRUE
    /\ invalid' = FALSE
    /\ UNCHANGED << pc, arg_c, arg_l, c_first, center, letters, word_list,
                    words, num_pan, printed, exit_status >>

\* get_letters: the entry fails `validate`; the prompt stays
LetterReject ==
    /\ pc = "get_letters_loop"
    /\ loop_continues(acceptable)
    /\ \E result \in UserTokens(acceptable) : ~check_duplicate(result, acceptable)
    /\ prompted' = TRUE
    /\ invalid' = TRUE
    /\ UNCHANGED << pc, arg_c, arg_l, c_first, center, letters, acceptable,
                    entries, word_list, words, num_pan, printed, exit_status >>

\* get_letters returns (line 129)
GetLettersReturn ==
    /\ pc = "get_letters_loop"
    /\ ~loop_continues(acceptable)
    /\ pc' = "get_words"
    /\ UNCHANGED << arg_c, arg_l, c_first, center, letters, acceptable,
                    entries, prompted, invalid, word_list, words, num_pan,
                    printed, exit_status >>

\* KeyboardInterrupt or EOFError while a prompt waits (lines 318-322)
Cancel ==
    /\ \/ pc = "get_center"
       \/ (pc = "get_letters_loop" /\ loop_continues(acceptable))
    /\ prompted' = TRUE
    /\ Exit(ExitError, MsgCancel)
    /\ UNCHANGED << arg_c, arg_l, c_first, center, letters, acceptable,
                    entries, invalid, word_list, words, num_pan >>

----------------------------------------------------------------------------
(* get_words, and main's calls of solver and print_results *)

\* a line of the file that is no word
HeaderLine == <<0, 0>>

\* contents of nyt.txt, as the lines read().splitlines() yields
Files ==
    { << HeaderLine >>,
      << HeaderLine, HeaderLine >>,
      << HeaderLine, HeaderLine,
         <<-3, 1, 2>>, <<1, 2, 3, 4, 5, 6, 7>>, <<8, 1, 7>>, <<3, 1, 2>>,
         <<2, 5, 4>> >> }

\* line 140: [x.lower() for x in lines[2:]]
get_words(lines) ==
    [ i \in 1..(IF Len(lines) > 2 THEN Len(lines) - 2 ELSE 0)
        |-> lower(lines[i + 2]) ]

\* get_words reads the file (lines 139-140)
GetWords ==
    /\ pc = "get_words"
    /\ \E lines \in Files : word_list' = get_words(lines)
    /\ pc' = "solver"
    /\ UNCHANGED << arg_c, arg_l, c_first, center, letters, acceptable,
                    entries, prompted, invalid, words, num_pan, printed,
                    exit_status >>

\* get_words finds no file (lines 141-143)
GetWordsNotFound ==
    /\ pc = "get_words"
    /\ Exit(ExitError, MsgNoFile)
    /\ UNCHANGED << arg_c, arg_l, c_first, center, letters, acceptable,
                    entries, prompted, invalid, word_list, words, num_pan >>

\* line 313
Solver ==
    /\ pc = "solver"
    /\ LET r == solver(word_list, acceptable, center[1])
       IN  /\ words' = r.words
           /\ num_pan' = r.num_pan
    /\ pc' = "print_results"
    /\ UNCHANGED << arg_c, arg_l, c_first, center, letters, acceptable,
                    entries, prompted, invalid, word_list, printed,
                    exit_status >>

\* line 314, and the normal end of the program
PrintResults ==
    /\ pc = "print_results"
    /\ printed' = printed \o print_results(words, num_pan)
    /\ pc' = "done"
    /\ exit_status' = Some(0)
    /\ UNCHANGED << arg_c, arg_l, c_first, center, letters, acceptable,
                    entries, prompted, invalid, word_list, words, num_pan >>

----------------------------------------------------------------------------
(* Spec: the whole program, from every command line of CommandLines *)

\* the first k lowercase letters, one value each
Canon(k) == [ i \in 1..k |-> <<i>> ]

\* the values of -c: a fixed token, or the letter after the first MaxOuter
CliTokens == FixedTokens \cup { <<MaxOuter + 1>> }

\* the value lists of -l: the first k letters (k up to one more than the
\* limit), and each of them with one value replaced by a fixed token
CliLists ==
    { Canon(k) : k \in 0..(MaxOuter + 1) }
    \cup { [Canon(k) EXCEPT ![i] = t] :
             k \in 1..(MaxOuter + 1), i \in 1..(MaxOuter + 1), t \in FixedTokens }

Init ==
    /\ pc = "get_args"
    /\ arg_c \in {None} \cup { Some(t) : t \in CliTokens }
    /\ arg_l \in {None} \cup { Some(l) : l \in CliLists }
    /\ c_first \in BOOLEAN
    /\ (IsNone(arg_c) \/ IsNone(arg_l)) => c_first
    /\ center = None
    /\ letters = None
    /\ acceptable = << >>
    /\ entries = 0
    /\ prompted = FALSE
    /\ invalid = FALSE
    /\ word_list = << >>
    /\ words = << >>
    /\ num_pan = 0
    /\ printed = << >>
    /\ exit_status = None

Next ==
    \/ GetArgs
    \/ GetCenterAccept
    \/ GetCenterReject
    \/ GetLettersStart
    \/ LetterAccept
    \/ LetterReject
    \/ GetLettersReturn
    \/ Cancel
    \/ GetWords
    \/ GetWordsNotFound
    \/ Solver
    \/ PrintResults

Spec == Init /\ [][Next]_vars

----------------------------------------------------------------------------
(* SpecSolver: solver (and the report of its result) on bounded inputs *)

\* the letters d, g, o of the documented scenario
SolverLetters == {4, 7, 15}

\* every string over S of length at most n
StringsUpTo(S, n) == UNION { [1..k -> S] : k \in 0..n }

ScenarioWords ==
    << <<4, 15, 7>>, <<7, 15, 4>>, <<7, 15, 15>>, <<4, 15, 7, 7, 15>> >>

ScenarioAcceptable == << <<7>>, <<15>>, <<4>> >>

\* word lists: every list of at most MaxWords words of at most MaxWordLen
\* letters, and the scenario's list
SolverWordLists ==
    StringsUpTo(StringsUpTo(SolverLetters, MaxWordLen), MaxWords)
    \cup { ScenarioWords }

\* well-formed configurations as main builds them: the center, then the outer
\* letters (here in alphabetical order), and the scenario's [g, o, d]
SolverConfigs ==
    { <<<<c>>>> \o sorted_casefold({ <<x>> : x \in outer }) :
        c \in SolverLetters, outer \in (SUBSET SolverLetters) \ {{}} }
    \cup { ScenarioAcceptable }

WellFormed(acc) ==
    /\ Len(acc) >= 2 /\ Len(acc) <= TotalLetters
    /\ Cardinality(SetOf(acc)) = Len(acc)
    /\ SetOf(acc) \subseteq ALPHABET

InitSolver ==
    /\ pc = "solver"
    /\ arg_c = None
    /\ arg_l = None
    /\ c_first = TRUE
    /\ acceptable \in { a \in SolverConfigs : WellFormed(a) }
    /\ center = Some(acceptable[1])
    /\ letters = Some(Tail(acceptable))
    /\ entries = 0
    /\ prompted = FALSE
    /\ invalid = FALSE
    /\ word_list \in SolverWordLists
    /\ words = << >>
    /\ num_pan = 0
    /\ printed = << >>
    /\ exit_status = None

NextSolver == Solver

SpecSolver == InitSolver /\ [][NextSolver]_vars

----------------------------------------------------------------------------------------------------------------------------------------
(* SpecLetters: get_letters on the arguments main can pass it: a lowercase   *)
(* center and no outer letters or the first one to six letters (the center   *)
(* a is then among them, which get_center's prompt lets happen)              *)

InitLetters ==
    /\ pc = "get_letters"
    /\ arg_c = None
    /\ arg_l = None
    /\ c_first = TRUE
    /\ center \in { Some(<<1>>), Some(<<MaxOuter + 1>>) }
    /\ letters \in {None} \cup { Some(Canon(k)) : k \in 1..MaxOuter }
    /\ acceptable = << >>
    /\ entries = 0
    /\ prompted = FALSE
    /\ invalid = FALSE
    /\ word_list = << >>
    /\ words = << >>
    /\ num_pan = 0
    /\ printed = << >>
    /\ exit_status = None

NextLetters ==
    \/ GetLettersStart
    \/ LetterAccept
    \/ LetterReject
    \/ GetLettersReturn
    \/ Cancel

\* the scheduling the prompts' proviso grants: get_letters runs, the user
\* eventually gives an entry the prompt accepts, and the loop's exit is taken
SpecLetters ==
    /\ InitLetters /\ [][NextLetters]_vars
    /\ WF_vars(GetLettersStart)
    /\ WF_vars(LetterAccept)
    /\ WF_vars(GetLettersReturn)

----------------
(* SpecPrint: print_results on bounded arguments *)

PrintWords == { <<4, 15, 7>>, <<-4, -15, -7>>, <<7, 15>> }

InitPrint ==
    /\ pc = "print_results"
    /\ arg_c = None
    /\ arg_l = None
    /\ c_first = TRUE
    /\ center = None
    /\ letters = None
    /\ acceptable = << >>
    /\ entries = 0
    /\ prompted = FALSE
    /\ invalid = FALSE
    /\ word_list = << >>
    /\ words \in StringsUpTo(PrintWords, MaxPrinted)
    /\ num_pan \in 0..MaxPan
    /\ printed = << >>
    /\ exit_status = None

NextPrint == PrintResults

SpecPrint == InitPrint /\ [][NextPrint]_vars

----------------------------------------------------------------------------
(* Properties of solver, under SpecSolver *)

\* solver has returned
Solved == pc = "print_results"

\* the word contains the center letter and only acceptable letters
Qualifies(w) ==
    /\ \E i \in 1..Len(w) : <<w[i]>> = center[1]
    /\ \A i \in 1..Len(w) : \E k \in 1..Len(acceptable) : acceptable[k] = <<w[i]>>

\* every acceptable letter occurs in the word
UsesAll(w) ==
    \A k \in 1..Len(acceptable) : \E i \in 1..Len(w) : <<w[i]>> = acceptable[k]

\* the entry is in uppercase / in lowercase throughout
IsUpper(w) == Len(w) > 0 /\ \A i \in 1..Len(w) : w[i] < 0
IsLower(w) == Len(w) > 0 /\ \A i \in 1..Len(w) : w[i] > 0

\* C1: the returned entries, lowercased, are exactly the distinct words of the
\* input list that contain the center letter and use only acceptable letters
C1_ExactMatches ==
    Solved =>
        { lower(words[i]) : i \in 1..Len(words) }
            = { w \in SetOf(word_list) : Qualifies(w) }

\* C1 witness: solver has returned, one word of the list was matched and one,
\* which has the center letter, was rejected for a letter outside acceptable
C1_Witness ==
    /\ Solved
    /\ Len(words) = 1
    /\ \E w \in SetOf(word_list) :
           /\ \E i \in 1..Len(w) : <<w[i]>> = center[1]
           /\ \E i \in 1..Len(w) : <<w[i]>> \notin SetOf(acceptable)

\* C2: a word that passes both checks is returned uppercased if and only if
\* it uses every acceptable letter, and unmodified otherwise; so every
\* uppercase entry's letters include all of acceptable and no lowercase
\* entry's do
C2_PangramMark ==
    Solved =>
        /\ \A w \in SetOf(word_list) :
              Qualifies(w) =>
                 /\ InList(upper(w), words) <=> UsesAll(w)
                 /\ InList(w, words) <=> ~UsesAll(w)
        /\ \A i \in 1..Len(words) :
              /\ IsUpper(words[i]) \/ IsLower(words[i])
              /\ IsUpper(words[i]) => UsesAll(lower(words[i]))
              /\ IsLower(words[i]) => ~UsesAll(words[i])

\* C2 witness: the result holds a pangram-marked entry and an unmarked one
C2_Witness ==
    /\ Solved
    /\ \E i \in 1..Len(words) : IsUpper(words[i])
    /\ \E i \in 1..Len(words) : IsLower(words[i])

\* C3 as claimed: the pangram count equals the number of pangram-marked
\* entries of the returned list, and never exceeds the list's length
C3_CountEqualsMarked ==
    Solved =>
        /\ num_pan = Cardinality({ i \in 1..Len(words) : IsUpper(words[i]) })
        /\ num_pan <= Len(words)

\* C4: the returned list is strictly ascending in case-insensitive order (so
\* no two entries are equal when case is ignored)
C4_StrictlyAscending ==
    Solved =>
        /\ \A i \in 1..(Len(words) - 1) :
              StrLess(casefold(words[i]), casefold(words[i + 1]))
        /\ \A i, j \in 1..Len(words) :
              i # j => casefold(words[i]) # casefold(words[j])

\* C4 witness: a returned list of two entries, a marked one after an unmarked
C4_Witness ==
    /\ Solved
    /\ Len(words) = 2
    /\ IsLower(words[1])
    /\ IsUpper(words[2])

InScenario ==
    /\ Solved
    /\ word_list = ScenarioWords
    /\ acceptable = ScenarioAcceptable
    /\ center = Some(<<7>>)

\* C9 as claimed: in the scenario all four words are matched and none is
\* marked as a pangram
C9_NoPangrams ==
    InScenario =>
        /\ SetOf(words) = SetOf(ScenarioWords)
        /\ Len(words) = Len(ScenarioWords)
        /\ num_pan = 0

\* C9 amended: in the scenario all four words are matched; dog, doggo and god
\* use all of g, o, d and are marked as pangrams, goo is not; the count is 3
C9_ThreePangrams ==
    InScenario =>
        /\ words = << <<-4, -15, -7>>, <<-4, -15, -7, -7, -15>>,
                      <<-7, -15, -4>>, <<7, 15, 15>> >>
        /\ num_pan = Len(ScenarioWords) - 1

\* C9 witness: solver has returned on the scenario's inputs
C9_Witness == InScenario /\ Len(words) = Len(ScenarioWords)

----------------------------------------------------------------------------
(* Properties of print_results, under SpecPrint *)

\* the pangram clause expected for a pangram count
ExpectedClause(p) ==
    IF p = 0 THEN ""
    ELSE IF p = 1 THEN ", including 1 pangram,"
    ELSE ", including " \o ToString(p) \o " pangrams,"

\* C8: with no word the only output is "No words were found."; otherwise the
\* header is "<n> word[s][, including <p> pangram[s],] was|were found:",
\* singular exactly when n = 1, the pangram clause present exactly when
\* p > 0 and singular exactly when p = 1, followed by the n words in order,
\* one per line
C8_Report ==
    pc = "done" =>
        LET n == Len(words)
            p == num_pan
        IN  /\ n = 0 => printed = << Line("No words were found.", << >>) >>
            /\ (n = 1 /\ p = 0) => printed[1].text = "1 word was found:"
            /\ n = 1 =>
                 printed[1].text = "1 word" \o ExpectedClause(p) \o " was found:"
            /\ n > 1 =>
                 printed[1].text =
                    ToString(n) \o " words" \o ExpectedClause(p) \o " were found:"
            /\ n > 0 =>
                 /\ Len(printed) = n + 1
                 /\ printed[1].word = << >>
                 /\ \A i \in 1..n : printed[i + 1] = Line("\t", words[i])

\* C8 witness: a report of several words with exactly one pangram
C8_Witness ==
    /\ pc = "done"
    /\ Len(words) > 1
    /\ num_pan = 1
    /\ printed[1].text = "2 words, including 1 pangram, were found:"

----------------------------------------------------------------------------
(* Properties of the command line, under Spec *)

\* exactly one alphabetic character
OneLetter(s) == Len(s) = 1 /\ s[1] # 0

\* -c has a value that is not one letter
BadCenterValue == ~IsNone(arg_c) /\ ~OneLetter(arg_c[1])

\* -l has a value that is not one letter
BadLetterValue ==
    ~IsNone(arg_l) /\ \E i \in 1..Len(arg_l[1]) : ~OneLetter(arg_l[1][i])

\* -l has no value at all
NoLetterValue == ~IsNone(arg_l) /\ Len(arg_l[1]) = 0

\* -l has more values than six
TooManyLetters == ~IsNone(arg_l) /\ Len(arg_l[1]) > MaxOuter

\* -l has two values equal after lowercasing
DuplicateLetters ==
    /\ ~IsNone(arg_l)
    /\ \E i, j \in 1..Len(arg_l[1]) :
          i # j /\ lower(arg_l[1][i]) = lower(arg_l[1][j])

Violation ==
    BadCenterValue \/ BadLetterValue \/ NoLetterValue \/ TooManyLetters
    \/ DuplicateLetters

\* the program ended in get_args with one message, unprompted, solver not run
EndedInGetArgs ==
    /\ pc = "exit"
    /\ Len(printed) = 1
    /\ ~prompted
    /\ word_list = << >> /\ words = << >> /\ acceptable = << >>

\* C5 as claimed: each violation on the command line ends the program with
\* exit status 1, a message printed, no prompt and no call of solver
C5_ExitStatusOne ==
    (pc # "get_args" /\ Violation) =>
        EndedInGetArgs /\ exit_status = Some(ExitError)

\* the -l values are what the first failure is about, and it is one of format
LettersFailByFormat == BadLetterValue \/ NoLetterValue
LettersFailByCheck ==
    ~LettersFailByFormat /\ (TooManyLetters \/ DuplicateLetters)

\* C5 amended: each violation ends the program with a message, no prompt and
\* no call of solver, and a non-zero exit status: status 2, the argument
\* parser's, when the first offending option in command-line order has a
\* value that is not one letter (or is -l without values); status 1 when it
\* is a -l list of single letters with more than six entries or a duplicate
C5_ExitStatusByViolation ==
    (pc # "get_args" /\ Violation) =>
        /\ EndedInGetArgs
        /\ exit_status =
             Some(IF c_first
                  THEN IF BadCenterValue \/ LettersFailByFormat
                       THEN ArgparseErrorStatus ELSE ExitError
                  ELSE IF LettersFailByFormat THEN ArgparseErrorStatus
                       ELSE IF LettersFailByCheck THEN ExitError
                       ELSE ArgparseErrorStatus)

\* C5 witness: a -c value of two letters has ended the program with status 2
C5_Witness ==
    /\ pc = "exit"
    /\ arg_c = Some(<<1, 2>>)
    /\ IsNone(arg_l)
    /\ exit_status = Some(ArgparseErrorStatus)

\* C6: when -c and -l are both given, with values that are single letters,
\* and the center is, ignoring case, one of the outer letters, the program
\* ends with exit status 1 before any prompt, before the word list is read
\* and before solver is called
C6_CenterAmongOuter ==
    ( /\ pc # "get_args"
      /\ ~IsNone(arg_c) /\ ~IsNone(arg_l)
      /\ ~BadCenterValue /\ ~BadLetterValue
      /\ \E i \in 1..Len(arg_l[1]) : lower(arg_l[1][i]) = lower(arg_c[1]) )
    => (EndedInGetArgs /\ exit_status = Some(ExitError))

\* C6 witness: -c A -l a b has ended the program with the overlap message
C6_Witness ==
    /\ pc = "exit"
    /\ arg_c = Some(<<-1>>)
    /\ arg_l = Some(<< <<1>>, <<2>> >>)
    /\ printed = << Line(MsgContain, << >>) >>
    /\ exit_status = Some(ExitError)

----------------------------------------------------------------------------
(* Properties of the prompts, under Spec and SpecLetters *)

\* C7 as claimed: the letters accepted so far (center and outer letters)
\* never contain a duplicate, so the configuration passed to solver has
\* pairwise distinct letters
C7_NoDuplicateAccepted ==
    /\ \A i, j \in 1..Len(acceptable) : i # j => acceptable[i] # acceptable[j]
    /\ (~IsNone(center) /\ ~IsNone(letters)) => ~InList(center[1], letters[1])

\* the outer letters given by flags (none when -l is absent)
Old == IF IsNone(letters) THEN << >> ELSE letters[1]

\* get_letters has returned
Returned == pc = "get_words"

====
